---- MODULE Spec2Model ----
(***************************************************************************)
(* A model of the slicing core of the ddd crate: the height-sorted facet   *)
(* list (src/src/mesh.rs, ZSortedFacets), the edge interpolation, the      *)
(* per-facet intersection routine, the segment stitcher and the driver     *)
(* loop (src/src/slice.rs), and the zeroing of a mesh (src/src/mesh.rs,    *)
(* Mesh::new_zeroed).                                                      *)
(*                                                                         *)
(* Rust vectors are modelled as sequences; Rust indexes are 0-based and    *)
(* the sequences here 1-based, so index i of the source is i + 1 here.     *)
(* Coordinates are i64 in the source.  In the model of the slicer every    *)
(* coordinate and height stays far inside that range, so no sum wraps; the *)
(* u64 increments of advance_height keep their cast to i64, which turns    *)
(* the values from 2^63 on into negative steps; the model of               *)
(* Mesh::new_zeroed has coordinates at both ends of the range and keeps    *)
(* the overflow of its sums and products.                                  *)
(***************************************************************************)
EXTENDS Integers, Sequences, FiniteSets

\* Largest z coordinate of an input vertex.
MaxZ == 2
\* Largest number of facets in a scene given to the facet list.
MaxFacets == 3
\* Largest distance of an advance_height argument from 0 and from 2^64.
MaxIncrement == 2

VARIABLES
    scene,           \* the facets handed over (Mesh.facets / the Scene)
    facets,          \* ZSortedFacets.facets: sequence of CachedFacetBounds
    current_height,  \* ZSortedFacets.current_height
    config,          \* SlicerConfig
    pc,              \* where slice() stands
    plane,           \* slice(): plane
    pending,         \* slice(): what the facet iterator has yet to yield
    segments,        \* slice(): segments; inside stitch_segments, its argument
    slices,          \* slice(): slices
    result,          \* how slice() ended: <<>> while it runs
    builder,         \* stitch_segments(): builder
    open_end,        \* stitch_segments(): open_end
    stitched,        \* what stitch_segments() returned: <<>> before it returns
    call,            \* the operation under study, with its arguments
    ret              \* what a function under study returned: <<>> before

filterVars == <<scene, facets, current_height>>
driverVars == <<config, pc, plane, pending, segments, slices, result>>
stitchVars == <<builder, open_end, stitched>>
vars == <<scene, facets, current_height, config, pc, plane, pending, segments,
          slices, result, builder, open_end, stitched, call, ret>>

\* Option: None is the empty sequence, Some(v) the sequence of v alone.
None == <<>>

Some(v) == <<v>>

----------------------------------------------------------------------------
\* Geometry

\* A u64 of the source, held as the pair (k, r) that stands for
\* k * 2^62 + r with r small: 0 is (0, 0), 2 is (0, 2), u64::MAX is (4, -1).
U64(k, r) == [k |-> k, r |-> r]

\* The u64 values given as increment and layer_height: up to MaxIncrement
\* from 0 and from 2^64.
Increments ==
    { U64(0, d) : d \in 0..MaxIncrement } \cup { U64(4, -d) : d \in 1..MaxIncrement }

\* `increment as i64`: a value below 2^63 is kept, a value from 2^63 on
\* becomes the value minus 2^64, a negative number.  The result is given as
\* an integer, for the values of which it is small.
u64_as_i64(v) ==
    LET k == IF v.k > 2 \/ (v.k = 2 /\ v.r >= 0) THEN v.k - 4 ELSE v.k
    IN  CASE k = 0 -> v.r

Vector3D_new(x, y, z) == [x |-> x, y |-> y, z |-> z]

Facet_new(p0, p1, p2) == <<p0, p1, p2>>

min(a, b) == IF a <= b THEN a ELSE b

max(a, b) == IF a >= b THEN a ELSE b

\* Facet::lower_z_bound: the lowest z of the three points.
lower_z_bound(facet) == min(facet[1].z, min(facet[2].z, facet[3].z))

\* Facet::upper_z_bound: the highest z of the three points.
upper_z_bound(facet) == max(facet[1].z, max(facet[2].z, facet[3].z))

\* CachedFacetBounds::new
CachedFacetBounds_new(facet) ==
    [facet |-> facet,
     lower_bound |-> lower_z_bound(facet),
     upper_bound |-> upper_z_bound(facet)]

RECURSIVE MinLowerFrom(_, _)
MinLowerFrom(fs, i) ==
    IF i = Len(fs) THEN lower_z_bound(fs[i])
    ELSE min(lower_z_bound(fs[i]), MinLowerFrom(fs, i + 1))

\* A plausible slip: the start height taken from the facets' upper bounds.
RECURSIVE MinUpperFrom(_, _)
MinUpperFrom(fs, i) ==
    IF i = Len(fs) THEN upper_z_bound(fs[i])
    ELSE min(upper_z_bound(fs[i]), MinUpperFrom(fs, i + 1))

Mesh_lower_z_bound_upper(fs) == MinUpperFrom(fs, 1)

\* Mesh::lower_z_bound: the minimum of the facets' lower bounds (the mesh is
\* not empty: min() of an empty iterator is unwrapped).
Mesh_lower_z_bound(fs) == MinLowerFrom(fs, 1)

----------------------------------------------------------------------------
\* ZSortedFacets

\* Descending order of lower_bound, the order the comparator
\* b.lower_bound.cmp(&a.lower_bound) asks for.
SortedDescending(fs) ==
    \A i \in 1..(Len(fs) - 1) : fs[i].lower_bound >= fs[i + 1].lower_bound

SortedAscending(fs) ==
    \A i \in 1..(Len(fs) - 1) : fs[i].lower_bound <= fs[i + 1].lower_bound

Orderings(fs) ==
    { [i \in 1..Len(fs) |-> fs[p[i]]] :
        p \in { q \in [1..Len(fs) -> 1..Len(fs)] :
                  \A i, j \in 1..Len(fs) : i # j => q[i] # q[j] } }

\* A plausible slip: the comparator written a.cmp(b), which sorts ascending.
sort_unstable_by_ascending(fs) == { t \in Orderings(fs) : SortedAscending(t) }

\* sort_unstable_by with the descending comparator.  The sort is unstable:
\* facets of equal lower_bound may come out in any order, so the result is
\* any of the permutations that are in order.
sort_unstable_by(fs) == { t \in Orderings(fs) : SortedDescending(t) }

\* A plausible slip in the tail scan: take_while tests the upper bound, so the
\* scan stops at the first facet that is kept.
RECURSIVE index_iter_upper(_, _, _)
index_iter_upper(fs, height, i) ==
    IF i = 0 THEN <<>>
    ELSE IF fs[i].upper_bound < height
         THEN <<i>> \o index_iter_upper(fs, height, i - 1)
         ELSE <<>>

\* The iterator of advance_height: the indexes from the tail towards the
\* head, taken while lower_bound < height, of which those with
\* upper_bound < height are kept.  Called with i = Len(fs).
RECURSIVE index_iter(_, _, _)
index_iter(fs, height, i) ==
    IF i = 0 THEN <<>>
    ELSE IF fs[i].lower_bound < height
         THEN (IF fs[i].upper_bound < height THEN <<i>> ELSE <<>>)
              \o index_iter(fs, height, i - 1)
         ELSE <<>>

\* The inner while-let of advance_height: extends the range downwards while
\* the next index of the iterator is range_start - 1.  Returns the start of
\* the range and what is left of the iterator.
RECURSIVE extend_range(_, _)
extend_range(range_start, iter) ==
    IF iter # <<>> /\ Head(iter) = range_start - 1
    THEN extend_range(Head(iter), Tail(iter))
    ELSE <<range_start, iter>>

\* The outer while-let of advance_height: collapses consecutive indexes into
\* inclusive ranges <<range_start, range_end>>, highest range first.
RECURSIVE collapse_ranges(_)
collapse_ranges(iter) ==
    IF iter = <<>> THEN <<>>
    ELSE LET ext == extend_range(Head(iter), Tail(iter))
         IN  <<  <<ext[1], Head(iter)>>  >> \o collapse_ranges(ext[2])

\* Vec::drain(range_start..=range_end)
drain(fs, range) ==
    SubSeq(fs, 1, range[1] - 1) \o SubSeq(fs, range[2] + 1, Len(fs))

\* for i in ranges { self.facets.drain(i); }
RECURSIVE drain_ranges(_, _)
drain_ranges(fs, ranges) ==
    IF ranges = <<>> THEN fs
    ELSE drain_ranges(drain(fs, Head(ranges)), Tail(ranges))

\* ZSortedFacets::advance_height: the facets left at the new height.
advance_height(fs, height) ==
    drain_ranges(fs, collapse_ranges(index_iter(fs, height, Len(fs))))

\* The search of facet_intersections: from the tail, the first index whose
\* lower_bound > height; 0 stands for None.  Called with i = Len(fs).
RECURSIVE first_facet_above(_, _, _)
first_facet_above(fs, height, i) ==
    IF i = 0 THEN 0
    ELSE IF fs[i].lower_bound > height THEN i
         ELSE first_facet_above(fs, height, i - 1)

\* ZSortedFacets::facet_intersections: self.facets[index + 1..] when the
\* search finds an index, the whole list otherwise, as the facets the
\* iterator yields.
facet_intersections(fs, height) ==
    LET index == first_facet_above(fs, height, Len(fs))
    IN  SubSeq(fs, index + 1, Len(fs))

\* ZSortedFacets::done
done(fs) == fs = <<>>

\* ZSortedFacets::new(facets, start_height): wrap each facet, sort, set the
\* height, advance_height(0).  The facet lists it may build (one per outcome
\* of the unstable sort); the height it sets is start_height + 0.
ZSortedFacets_new(fs, start_height) ==
    LET cached == [i \in 1..Len(fs) |-> CachedFacetBounds_new(fs[i])]
    IN  { advance_height(sorted, start_height + 0) :
            sorted \in sort_unstable_by(cached) }

----------------------------------------------------------------------------
\* Edge interpolation and the per-facet routine (slice.rs)

\* Largest x or y coordinate of an interpolated vertex.
MaxXY == 2

\* Vector2D::new
Vector2D_new(x, y) == [x |-> x, y |-> y]

\* Vector3D::to_2d_at_z: the point without its z.
to_2d_at_z(v) == Vector2D_new(v.x, v.y)

abs(n) == IF n >= 0 THEN n ELSE -n

\* (delta as f64 * (zdist as f64 / dz as f64)) as i64.  The cast truncates
\* towards zero.  For operands of magnitude up to 12 the f64 quotient and
\* product round to a value with the same integer part as the exact
\* delta * zdist / dz, so the result is the exact quotient truncated.
scale_truncate(delta, zdist, dz) ==
    IF (delta * zdist >= 0) = (dz > 0)
    THEN abs(delta * zdist) \div abs(dz)
    ELSE -(abs(delta * zdist) \div abs(dz))

\* zinterpolate casting the whole coordinate, (a.x as f64 + dx * ratio) as
\* i64, where the source casts the offset alone.
zinterpolate_cast_sum(a, b, plane_z) ==
    IF a.z = b.z THEN None
    ELSE IF a.z = plane_z THEN Some(to_2d_at_z(a))
    ELSE IF b.z = plane_z THEN Some(to_2d_at_z(b))
    ELSE IF (a.z < plane_z /\ b.z > plane_z) \/ (a.z > plane_z /\ b.z < plane_z)
    THEN Some(Vector2D_new(
             scale_truncate(a.x * (b.z - a.z) + (b.x - a.x) * (plane_z - a.z),
                            1, b.z - a.z),
             scale_truncate(a.y * (b.z - a.z) + (b.y - a.y) * (plane_z - a.z),
                            1, b.z - a.z)))
    ELSE None

\* zinterpolate without its first test, a.z == b.z: an edge lying in the
\* plane returns its first endpoint.
zinterpolate_no_parallel_test(a, b, plane_z) ==
    IF a.z = plane_z THEN Some(to_2d_at_z(a))
    ELSE IF b.z = plane_z THEN Some(to_2d_at_z(b))
    ELSE IF (a.z < plane_z /\ b.z > plane_z) \/ (a.z > plane_z /\ b.z < plane_z)
    THEN Some(Vector2D_new(
             a.x + scale_truncate(b.x - a.x, plane_z - a.z, b.z - a.z),
             a.y + scale_truncate(b.y - a.y, plane_z - a.z, b.z - a.z)))
    ELSE None

\* zinterpolate(a, b, plane_z)
zinterpolate(a, b, plane_z) ==
    IF a.z = b.z THEN None
    ELSE IF a.z = plane_z THEN Some(to_2d_at_z(a))
    ELSE IF b.z = plane_z THEN Some(to_2d_at_z(b))
    ELSE IF (a.z < plane_z /\ b.z > plane_z) \/ (a.z > plane_z /\ b.z < plane_z)
    THEN Some(Vector2D_new(
             a.x + scale_truncate(b.x - a.x, plane_z - a.z, b.z - a.z),
             a.y + scale_truncate(b.y - a.y, plane_z - a.z, b.z - a.z)))
    ELSE None

\* vertex_combos of slice()
vertex_combos(vs) == << <<vs[1], vs[2]>>, <<vs[1], vs[3]>>, <<vs[2], vs[3]>> >>

\* The locals of the per-facet loop before its first pass.
facet_locals ==
    [intersections |-> <<Vector2D_new(0, 0), Vector2D_new(0, 0)>>,
     idx |-> 0,
     have_vertex_on_plane |-> FALSE,
     panic |-> None]

\* The pass without the have_vertex_on_plane test: every intersection is
\* recorded.
combo_pass_no_dedupe(st, combo, plane_z) ==
    LET intersection == zinterpolate(combo[1], combo[2], plane_z)
    IN  IF st.panic # None \/ intersection = None THEN st
        ELSE IF ~(st.idx < 2)
        THEN [st EXCEPT !.panic = Some("intersected more than twice")]
        ELSE [st EXCEPT !.intersections[st.idx + 1] = intersection[1],
                        !.idx = @ + 1]

\* The pass testing vertex_a.z == plane alone, where the source tests both
\* vertices of the pair.
combo_pass_a_only(st, combo, plane_z) ==
    LET intersection == zinterpolate(combo[1], combo[2], plane_z)
        on_plane == combo[1].z = plane_z
    IN  IF st.panic # None \/ intersection = None THEN st
        ELSE IF on_plane /\ st.have_vertex_on_plane THEN st
        ELSE IF ~(st.idx < 2)
        THEN [st EXCEPT !.have_vertex_on_plane = @ \/ on_plane,
                        !.panic = Some("intersected more than twice")]
        ELSE [st EXCEPT !.have_vertex_on_plane = @ \/ on_plane,
                        !.intersections[st.idx + 1] = intersection[1],
                        !.idx = @ + 1]

\* One pass of `for [vertex_a, vertex_b] in vertex_combos`.  A pass after a
\* failed assertion does nothing: the panic has ended the function.
combo_pass(st, combo, plane_z) ==
    LET intersection == zinterpolate(combo[1], combo[2], plane_z)
        on_plane == combo[1].z = plane_z \/ combo[2].z = plane_z
    IN  IF st.panic # None \/ intersection = None THEN st
        ELSE IF on_plane /\ st.have_vertex_on_plane THEN st
        ELSE IF ~(st.idx < 2)
        THEN [st EXCEPT !.have_vertex_on_plane = @ \/ on_plane,
                        !.panic = Some("intersected more than twice")]
        ELSE [st EXCEPT !.have_vertex_on_plane = @ \/ on_plane,
                        !.intersections[st.idx + 1] = intersection[1],
                        !.idx = @ + 1]

\* The body of `for facet in ff.intersecting_facets()`: the three passes,
\* then assert_eq!(idx, 2).
facet_segment(facet, plane_z) ==
    LET c == vertex_combos(facet)
        st == combo_pass(combo_pass(combo_pass(facet_locals, c[1], plane_z),
                                    c[2], plane_z), c[3], plane_z)
    IN  IF st.panic = None /\ st.idx # 2
        THEN [st EXCEPT !.panic = Some("didn't have two intersections")]
        ELSE st

----------------------------------------------------------------------------
\* The stitcher (slice.rs)

MAX_SNAP_DIST == 3

\* a.distance(&b) <= d, for the Euclidean distance of two points.
distance_le(a, b, d) ==
    (a.x - b.x) * (a.x - b.x) + (a.y - b.y) * (a.y - b.y) <= d * d

\* Polygon::builder(start): the builder keeps the start vertex, which is the
\* polygon's first vertex.
Polygon_builder(start) == [start |-> start, vertices |-> <<start>>]

\* PolygonBuilder::line_to
line_to(b, v) == [b EXCEPT !.vertices = Append(@, v)]

\* PolygonBuilder::close: the start vertex is appended as the last vertex.
close(b) == Append(b.vertices, b.start)

\* The for loop of stitch_segments: the first segment, in storage order,
\* with an endpoint within MAX_SNAP_DIST of open_end, and the index (0 or 1)
\* of its other endpoint.  Called with i = 1.
RECURSIVE next_vert_idx(_, _, _)
next_vert_idx(segs, end, i) ==
    IF i > Len(segs) THEN None
    ELSE IF distance_le(segs[i][1], end, MAX_SNAP_DIST) THEN Some(<<i, 1>>)
    ELSE IF distance_le(segs[i][2], end, MAX_SNAP_DIST) THEN Some(<<i, 0>>)
    ELSE next_vert_idx(segs, end, i + 1)

\* Vec::remove(index)
remove(s, index) == SubSeq(s, 1, index - 1) \o SubSeq(s, index + 1, Len(s))

Ok(v) == [ok |-> TRUE, value |-> v]

Err(e) == [ok |-> FALSE, value |-> e]

Panic(message) == [ok |-> FALSE, value |-> "panic", message |-> message]

\* The loop of stitch_segments as a function of the segments left, the
\* builder and the open end.
RECURSIVE stitch_loop(_, _, _)
stitch_loop(segs, b, end) ==
    LET next == next_vert_idx(segs, end, 1)
    IN  IF next # None
        THEN LET index == next[1][1]
                 vertindex == next[1][2]
                 segment == segs[index]
             IN  stitch_loop(remove(segs, index), line_to(b, end),
                             IF vertindex = 0 THEN segment[1] ELSE segment[2])
        ELSE IF segs = <<>> THEN Ok(Some(close(b)))
             ELSE Err("OpenStitchPolygon")

\* stitch_segments(segments) as a function.
stitch_segments(segs) ==
    IF segs = <<>> THEN Ok(None)
    ELSE stitch_loop(SubSeq(segs, 1, Len(segs) - 1),
                     Polygon_builder(segs[Len(segs)][1]),
                     segs[Len(segs)][2])

\* `for facet in ff.intersecting_facets()` as a function of the facets the
\* iterator yields: the segments pushed, or the first failed assertion.
RECURSIVE plane_segments(_, _, _)
plane_segments(fs, plane_z, segs) ==
    IF fs = <<>> THEN Ok(segs)
    ELSE LET st == facet_segment(Head(fs), plane_z)
         IN  IF st.panic # None THEN Panic(st.panic[1])
             ELSE plane_segments(Tail(fs), plane_z, Append(segs, st.intersections))

\* The body of the loop of slice() up to the stitcher's result, for the
\* facets of the view and the plane.
slice_plane(fs, plane_z) ==
    LET segs == plane_segments(fs, plane_z, <<>>)
    IN  IF segs.ok THEN stitch_segments(segs.value) ELSE segs

----------------------------------------------------------------------------
\* slice(), one step at a time

\* Scene::is_empty
Scene_is_empty(s) == s = <<>>

\* slice() without its test of scene.is_empty(): the facet filter is built
\* from no facets and the minimum of no heights is unwrapped.
slice_empty_scene_unchecked ==
    /\ pc = "slice"
    /\ Scene_is_empty(scene)
    /\ result' = Some(Panic("unwrap on None"))
    /\ pc' = "panicked"
    /\ UNCHANGED <<filterVars, config, plane, pending, segments, slices,
                   stitchVars, call, ret>>

\* slice(): if scene.is_empty() { return Err(Error::EmptyScene); }
slice_empty_scene ==
    /\ pc = "slice"
    /\ Scene_is_empty(scene)
    /\ result' = Some(Err("EmptyScene"))
    /\ pc' = "returned"
    /\ UNCHANGED <<filterVars, config, plane, pending, segments, slices,
                   stitchVars, call, ret>>

\* slice(): let mut ff = scene.to_facet_filter(); let mut slices = Vec::new();
to_facet_filter ==
    /\ pc = "slice"
    /\ ~Scene_is_empty(scene)
    /\ current_height' = Mesh_lower_z_bound(scene) + 0
    /\ facets' \in ZSortedFacets_new(scene, Mesh_lower_z_bound(scene))
    /\ slices' = <<>>
    /\ pc' = "while"
    /\ UNCHANGED <<scene, config, plane, pending, segments, result,
                   stitchVars, call, ret>>

\* slice(): the test of `while !ff.is_empty()`; inside the loop, plane,
\* segments and the iterator over the intersecting facets are set up; after
\* it, Ok(slices) is returned.
slice_while ==
    /\ pc = "while"
    /\ IF done(facets)
       THEN /\ result' = Some(Ok(slices))
            /\ pc' = "returned"
            /\ UNCHANGED <<plane, segments, pending>>
       ELSE /\ plane' = current_height
            /\ segments' = <<>>
            /\ pending' = facet_intersections(facets, current_height)
            /\ pc' = "for facet"
            /\ UNCHANGED result
    /\ UNCHANGED <<filterVars, config, slices, stitchVars, call, ret>>

\* slice(): one pass of `for facet in ff.intersecting_facets()`: the facet's
\* segment is pushed, or an assertion fails.
slice_facet ==
    /\ pc = "for facet"
    /\ pending # <<>>
    /\ LET st == facet_segment(Head(pending).facet, plane)
       IN  IF st.panic = None
           THEN /\ segments' = Append(segments, st.intersections)
                /\ pending' = Tail(pending)
                /\ UNCHANGED <<pc, result>>
           ELSE /\ result' = Some(Panic(st.panic[1]))
                /\ pc' = "panicked"
                /\ UNCHANGED <<segments, pending>>
    /\ UNCHANGED <<filterVars, config, plane, slices, stitchVars, call, ret>>

\* stitch_segments() starting the polygon at the second endpoint of the
\* popped segment and leaving the first as the open end.
stitch_segments_pop_second ==
    /\ pc = "for facet"
    /\ pending = <<>>
    /\ IF segments = <<>>
       THEN /\ stitched' = Some(Ok(None))
            /\ pc' = "stitched"
            /\ UNCHANGED <<segments, builder, open_end>>
       ELSE /\ segments' = SubSeq(segments, 1, Len(segments) - 1)
            /\ builder' = Polygon_builder(segments[Len(segments)][2])
            /\ open_end' = segments[Len(segments)][1]
            /\ stitched' = None
            /\ pc' = "stitch loop"
    /\ UNCHANGED <<filterVars, config, plane, pending, slices, result, call, ret>>

\* slice(): the call stitch_segments(segments), up to its loop:
\* the empty list returns Ok(None); otherwise the last segment is popped and
\* starts the polygon.
stitch_segments_pop ==
    /\ pc = "for facet"
    /\ pending = <<>>
    /\ IF segments = <<>>
       THEN /\ stitched' = Some(Ok(None))
            /\ pc' = "stitched"
            /\ UNCHANGED <<segments, builder, open_end>>
       ELSE /\ segments' = SubSeq(segments, 1, Len(segments) - 1)
            /\ builder' = Polygon_builder(segments[Len(segments)][1])
            /\ open_end' = segments[Len(segments)][2]
            /\ stitched' = None
            /\ pc' = "stitch loop"
    /\ UNCHANGED <<filterVars, config, plane, pending, slices, result, call, ret>>

\* stitch_segments(): one pass of its loop.
stitch_segments_loop ==
    /\ pc = "stitch loop"
    /\ LET next == next_vert_idx(segments, open_end, 1)
       IN  IF next # None
           THEN LET index == next[1][1]
                    vertindex == next[1][2]
                    segment == segments[index]
                IN  /\ segments' = remove(segments, index)
                    /\ builder' = line_to(builder, open_end)
                    /\ open_end' = IF vertindex = 0 THEN segment[1] ELSE segment[2]
                    /\ UNCHANGED <<stitched, pc>>
           ELSE /\ stitched' = IF segments = <<>>
                               THEN Some(Ok(Some(close(builder))))
                               ELSE Some(Err("OpenStitchPolygon"))
                /\ pc' = "stitched"
                /\ UNCHANGED <<segments, builder, open_end>>
    /\ UNCHANGED <<filterVars, config, plane, pending, slices, result, call, ret>>

\* slice() taking an error of the stitcher for a plane without a polygon:
\* an empty slice is pushed and the loop goes on.
slice_push_lenient ==
    /\ pc = "stitched"
    /\ slices' = Append(slices,
          [thickness |-> config.layer_height,
           islands |-> IF ~stitched[1].ok \/ stitched[1].value = None THEN <<>>
                       ELSE << [outline |-> stitched[1].value[1],
                                holes |-> <<>>] >>])
    /\ current_height' = current_height + u64_as_i64(config.layer_height)
    /\ facets' = advance_height(facets,
                  current_height + u64_as_i64(config.layer_height))
    /\ pc' = "while"
    /\ UNCHANGED <<scene, result>>
    /\ UNCHANGED <<config, plane, pending, segments, stitchVars, call, ret>>

\* slice(): the rest of the loop body.  An error of the stitcher is returned
\* (the ? operator); a polygon becomes the only island of a new slice and no
\* polygon an empty slice; then ff.advance_height(layer_height).
slice_push ==
    /\ pc = "stitched"
    /\ IF ~stitched[1].ok
       THEN /\ result' = Some(Err(stitched[1].value))
            /\ pc' = "returned"
            /\ UNCHANGED <<slices, filterVars>>
       ELSE /\ slices' = Append(slices,
                  [thickness |-> config.layer_height,
                   islands |-> IF stitched[1].value = None THEN <<>>
                               ELSE << [outline |-> stitched[1].value[1],
                                        holes |-> <<>>] >>])
            /\ current_height' = current_height + u64_as_i64(config.layer_height)
            /\ facets' = advance_height(facets,
                  current_height + u64_as_i64(config.layer_height))
            /\ pc' = "while"
            /\ UNCHANGED <<scene, result>>
    /\ UNCHANGED <<config, plane, pending, segments, stitchVars, call, ret>>

----------------------------------------------------------------------------
\* The inputs of the facet list.

\* The facets an input may hold: a triangle over the corners (0,0), (1,0),
\* (0,1) with one vertex at height hi and two at height lo, the high vertex
\* in any of the three positions, and the flat triangles.
InputFacets ==
    { Facet_new(Vector3D_new(0, 0, z[1]), Vector3D_new(1, 0, z[2]),
                Vector3D_new(0, 1, z[3])) :
        z \in { t \in [1..3 -> 0..MaxZ] :
                  \E lo, hi \in 0..MaxZ :
                     /\ lo <= hi
                     /\ \E k \in 1..3 :
                          t = [i \in 1..3 |-> IF i = k THEN hi ELSE lo] } }

FacetKey(f) == (f[1].z * (MaxZ + 1) + f[2].z) * (MaxZ + 1) + f[3].z

\* The scenes: 1..MaxFacets facets.  The sort makes the facet list
\* independent of the order of the input, so the inputs are enumerated up to
\* their order.
Scenes ==
    UNION { { s \in [1..n -> InputFacets] :
                \A i \in 1..(n - 1) : FacetKey(s[i]) <= FacetKey(s[i + 1]) } :
            n \in 1..MaxFacets }

----------------------------------------------------------------------------
\* Specifications

\* The values of the variables an operation under study does not use.
DriverIdle ==
    /\ config = [layer_height |-> U64(0, 0)]
    /\ pc = "idle"
    /\ plane = 0
    /\ pending = <<>>
    /\ segments = <<>>
    /\ slices = <<>>
    /\ result = None

StitchIdle ==
    /\ builder = Polygon_builder(Vector2D_new(0, 0))
    /\ open_end = Vector2D_new(0, 0)
    /\ stitched = None

FilterIdle ==
    /\ facets = <<>>
    /\ current_height = 0

\* slice() on a scene: the empty scene or 1..MaxFacets facets, with any
\* layer_height of Increments.
Init ==
    /\ scene \in Scenes \cup {<<>>}
    /\ FilterIdle
    /\ config \in [layer_height : Increments]
    /\ pc = "slice"
    /\ plane = 0
    /\ pending = <<>>
    /\ segments = <<>>
    /\ slices = <<>>
    /\ result = None
    /\ StitchIdle
    /\ call = [op |-> "slice"]
    /\ ret = None

\* The steps of slice() that a run reaches.  Every run with facets ends in
\* slice_facet at the first plane (see NeverPastFirstFacet), so the rest of
\* the loop body is exercised from a given segment list in SpecStitch.
Next ==
    \/ slice_empty_scene
    \/ to_facet_filter
    \/ slice_while
    \/ slice_facet

Spec == Init /\ [][Next]_vars

\* slice() run to its end: the function is sequential code, so a step that
\* can be taken is taken.  A panic or a return leaves no step.
SpecLive == Init /\ [][Next]_vars /\ WF_vars(Next)

\* The facet list on its own: construction by Mesh::zsort_facets, then any
\* advance_height calls.
InitFilter ==
    /\ scene \in Scenes
    /\ FilterIdle
    /\ DriverIdle
    /\ StitchIdle
    /\ call = [op |-> "mesh"]
    /\ ret = None

\* Mesh::zsort_facets: ZSortedFacets::new(self.facets, self.lower_z_bound())
zsort_facets ==
    /\ call.op = "mesh"
    /\ current_height' = Mesh_lower_z_bound(scene) + 0
    /\ facets' \in ZSortedFacets_new(scene, Mesh_lower_z_bound(scene))
    /\ call' = [op |-> "new"]
    /\ UNCHANGED <<scene, driverVars, stitchVars, ret>>

\* ZSortedFacets::advance_height(increment), increment a u64:
\* self.current_height += increment as i64, then the facets below the new
\* height are dropped.  Calls are made while the height is in 0..MaxZ.
AdvanceHeight(increment) ==
    /\ call.op \in {"new", "advance_height"}
    /\ current_height \in 0..MaxZ
    /\ current_height' = current_height + u64_as_i64(increment)
    /\ facets' = advance_height(facets, current_height + u64_as_i64(increment))
    /\ call' = [op |-> "advance_height", increment |-> increment]
    /\ UNCHANGED <<scene, driverVars, stitchVars, ret>>

NextFilter ==
    \/ zsort_facets
    \/ \E increment \in Increments : AdvanceHeight(increment)

SpecFilter == InitFilter /\ [][NextFilter]_vars

\* zinterpolate on its own: the two endpoints over a small grid, the plane
\* at any height of the grid, the function applied to (a, b) and to (b, a).
Points3D == [x : 0..MaxXY, y : 0..MaxXY, z : 0..MaxZ]

InitInterp ==
    /\ call \in [op : {"zinterpolate"}, a : Points3D, b : Points3D,
                 plane_z : 0..MaxZ]
    /\ ret = None
    /\ scene = <<>>
    /\ FilterIdle
    /\ DriverIdle
    /\ StitchIdle

call_zinterpolate ==
    /\ call.op = "zinterpolate"
    /\ ret = None
    /\ ret' = Some([ab |-> zinterpolate(call.a, call.b, call.plane_z),
                    ba |-> zinterpolate(call.b, call.a, call.plane_z)])
    /\ UNCHANGED <<filterVars, driverVars, stitchVars, call>>

NextInterp == call_zinterpolate

SpecInterp == InitInterp /\ [][NextInterp]_vars

\* The per-facet body of slice() on its own: one facet and one plane.  The
\* facets have their corners at one of three (x, y) layouts, the third with
\* a repeated corner, and every combination of heights; the plane is at any
\* height of the grid or just outside it.
FacetLayouts ==
    { << <<0, 0>>, <<5, 0>>, <<0, 5>> >>,
      << <<1, 2>>, <<4, 0>>, <<2, 5>> >>,
      << <<0, 0>>, <<0, 0>>, <<3, 3>> >> }

FacetInputs ==
    { Facet_new(Vector3D_new(xy[1][1], xy[1][2], z[1]),
                Vector3D_new(xy[2][1], xy[2][2], z[2]),
                Vector3D_new(xy[3][1], xy[3][2], z[3])) :
        xy \in FacetLayouts, z \in [1..3 -> 0..MaxZ] }

InitFacet ==
    /\ call \in [op : {"facet_segment"}, facet : FacetInputs,
                 plane_z : (-1)..(MaxZ + 1)]
    /\ ret = None
    /\ scene = <<>>
    /\ FilterIdle
    /\ DriverIdle
    /\ StitchIdle

call_facet_segment ==
    /\ call.op = "facet_segment"
    /\ ret = None
    /\ ret' = Some(facet_segment(call.facet, call.plane_z))
    /\ UNCHANGED <<filterVars, driverVars, stitchVars, call>>

NextFacet == call_facet_segment

SpecFacet == InitFacet /\ [][NextFacet]_vars

\* stitch_segments and what slice() does with its result, from a given
\* segment list.  The segments are the edges of two triangles lying more
\* than MAX_SNAP_DIST apart, the second with two edges reversed, and an
\* edge that ends one unit short of a corner of the first.
PoolSegments ==
    LET A == Vector2D_new(0, 0)
        B == Vector2D_new(4, 0)
        C == Vector2D_new(0, 4)
        A1 == Vector2D_new(1, 0)
        D == Vector2D_new(10, 10)
        E == Vector2D_new(14, 10)
        F == Vector2D_new(10, 14)
    IN  { <<A, B>>, <<B, C>>, <<C, A>>, <<C, A1>>,
          <<D, E>>, <<F, E>>, <<F, D>> }

\* Largest number of segments in a layer.
MaxSegments == 6

\* The slices slice() may hold when a plane's segments are stitched: none,
\* at the first plane, or the empty slice of a lower plane without segments.
BuiltSlices(cfg) ==
    { <<>>, << [thickness |-> cfg.layer_height, islands |-> <<>>] >> }

\* The segment lists: up to MaxSegments different segments in any order.
Pools ==
    UNION { { s \in [1..n -> PoolSegments] :
                \A i, j \in 1..n : i # j => s[i] # s[j] } :
            n \in 0..MaxSegments }

InitStitch ==
    /\ segments \in Pools
    /\ config \in [layer_height : Increments \ {U64(0, 0)}]
    /\ slices \in BuiltSlices(config)
    /\ call = [op |-> "stitch_segments", segments |-> segments,
               slices |-> slices]
    /\ pc = "for facet"
    /\ pending = <<>>
    /\ plane = 0
    /\ result = None
    /\ scene = <<>>
    /\ FilterIdle
    /\ StitchIdle
    /\ ret = None

NextStitch ==
    \/ stitch_segments_pop
    \/ stitch_segments_loop
    \/ slice_push
    \/ slice_while

SpecStitch == InitStitch /\ [][NextStitch]_vars

\* One plane of slice() on its own, for a list of facets and for the same
\* list moved in x and y.  The facets are triangles over the corners (0,0),
\* (5,0), (0,5), in place or moved by (10,10), more than MAX_SNAP_DIST
\* away: with one vertex or two at the top, with a vertex at height 1
\* between the others, and flat.
PlaneFacets ==
    { Facet_new(Vector3D_new(o, o, z[1]), Vector3D_new(o + 5, o, z[2]),
                Vector3D_new(o, o + 5, z[3])) :
        o \in {0, 10},
        z \in { <<0, 0, MaxZ>>, <<0, MaxZ, 0>>, <<MaxZ, 0, MaxZ>>,
                <<0, 1, MaxZ>>, <<MaxZ, 1, 0>>, <<1, 1, 1>> } }

\* Largest number of facets in the view of one plane.
MaxViewFacets == 2

PlaneViews ==
    UNION { [1..n -> PlaneFacets] : n \in 1..MaxViewFacets }

\* The translations (tx, ty, 0) tried.
Translations ==
    { Vector3D_new(t[1], t[2], 0) : t \in { <<-7, 0>>, <<0, -7>>, <<3, 4>>, <<-7, -7>> } }

\* The facet moved by (t.x, t.y, t.z).
Moved(facet, t) ==
    [k \in 1..3 |-> Vector3D_new(facet[k].x + t.x, facet[k].y + t.y,
                                 facet[k].z + t.z)]

InitPlane ==
    /\ call \in [op : {"slice_plane"}, facets : PlaneViews, plane_z : 0..MaxZ,
                 translation : Translations]
    /\ ret = None
    /\ scene = <<>>
    /\ FilterIdle
    /\ DriverIdle
    /\ StitchIdle

call_slice_plane ==
    /\ call.op = "slice_plane"
    /\ ret = None
    /\ ret' = Some([plain |-> slice_plane(call.facets, call.plane_z),
                    moved |-> slice_plane(
                        [i \in 1..Len(call.facets) |->
                            Moved(call.facets[i], call.translation)],
                        call.plane_z)])
    /\ UNCHANGED <<filterVars, driverVars, stitchVars, call>>

NextPlane == call_slice_plane

SpecPlane == InitPlane /\ [][NextPlane]_vars

\* slice() on a closed box: the corners are (0|w, 0|d, 0|h), every face is
\* two triangles, split along either diagonal.
Quad(p0, p1, p2, p3, diagonal) ==
    IF diagonal = 0
    THEN << Facet_new(p0, p1, p2), Facet_new(p0, p2, p3) >>
    ELSE << Facet_new(p0, p1, p3), Facet_new(p1, p2, p3) >>

Box(w, d, h, diagonals) ==
    LET c(i, j, k) == Vector3D_new(i * w, j * d, k * h)
    IN  Quad(c(0,0,0), c(1,0,0), c(1,1,0), c(0,1,0), diagonals[1])
        \o Quad(c(0,0,1), c(1,0,1), c(1,1,1), c(0,1,1), diagonals[2])
        \o Quad(c(0,0,0), c(1,0,0), c(1,0,1), c(0,0,1), diagonals[3])
        \o Quad(c(0,1,0), c(1,1,0), c(1,1,1), c(0,1,1), diagonals[4])
        \o Quad(c(0,0,0), c(0,1,0), c(0,1,1), c(0,0,1), diagonals[5])
        \o Quad(c(1,0,0), c(1,1,0), c(1,1,1), c(1,0,1), diagonals[6])

\* The boxes and layer heights: a square base of side MaxXY, a height up to
\* MaxZ and a layer height that divides it; and the cube of side 10000 with
\* layer height 1000.
BoxRuns ==
    { [w |-> MaxXY, d |-> MaxXY, h |-> hl[1], layer_height |-> hl[2]] :
        hl \in { p \in (1..MaxZ) \X (1..MaxIncrement) : p[1] % p[2] = 0 } }
    \cup { [w |-> 10000, d |-> 10000, h |-> 10000, layer_height |-> 1000] }

InitBox ==
    /\ call \in [op : {"slice"}, box : BoxRuns, diagonals : [1..6 -> {0, 1}]]
    /\ scene = Box(call.box.w, call.box.d, call.box.h, call.diagonals)
    /\ config = [layer_height |-> U64(0, call.box.layer_height)]
    /\ FilterIdle
    /\ pc = "slice"
    /\ plane = 0
    /\ pending = <<>>
    /\ segments = <<>>
    /\ slices = <<>>
    /\ result = None
    /\ StitchIdle
    /\ ret = None

\* The list with its first k entries moved to the end.
Rotated(fs, k) == SubSeq(fs, k + 1, Len(fs)) \o SubSeq(fs, 1, k)

\* c put into a list sorted by lower_bound, descending, behind the entries
\* that are not below it.
RECURSIVE insert_sorted(_, _)
insert_sorted(sorted, c) ==
    IF sorted = <<>> THEN <<c>>
    ELSE IF Head(sorted).lower_bound >= c.lower_bound
         THEN <<Head(sorted)>> \o insert_sorted(Tail(sorted), c)
         ELSE <<c>> \o sorted

RECURSIVE insertion_sort(_)
insertion_sort(fs) ==
    IF fs = <<>> THEN <<>>
    ELSE insert_sorted(insertion_sort(SubSeq(fs, 1, Len(fs) - 1)), fs[Len(fs)])

\* Some of the orders sort_unstable_by may leave a list in: those that keep
\* the entries of equal lower_bound in the order of a rotation of the list.
\* The twelve facets of a box have too many sorted orders to list them all;
\* with these, every facet of a tie comes first in one order.
sort_unstable_by_rotations(fs) ==
    { insertion_sort(Rotated(fs, k)) : k \in 0..(Len(fs) - 1) }

\* to_facet_filter for the box, the sort leaving one of the orders above.
box_to_facet_filter ==
    /\ pc = "slice"
    /\ ~Scene_is_empty(scene)
    /\ current_height' = Mesh_lower_z_bound(scene) + 0
    /\ \E sorted \in sort_unstable_by_rotations(
                        [i \in 1..Len(scene) |-> CachedFacetBounds_new(scene[i])]) :
          facets' = advance_height(sorted, Mesh_lower_z_bound(scene) + 0)
    /\ slices' = <<>>
    /\ pc' = "while"
    /\ UNCHANGED <<scene, config, plane, pending, segments, result,
                   stitchVars, call, ret>>

NextBox ==
    \/ box_to_facet_filter
    \/ slice_while
    \/ slice_facet

SpecBox == InitBox /\ [][NextBox]_vars

\* Mesh::new_zeroed on its own (mesh.rs; geometry.rs holds the same code as
\* Mesh::to_zeroed).  Its arithmetic is i64 arithmetic, and the inputs
\* include i64::MIN and i64::MAX, so here a coordinate is a pair (k, r) that
\* stands for k * 2^62 + r, with r small: 0 is (0, 0), i64::MIN is (-2, 0),
\* i64::MAX is (2, -1).  Sums and negations of such pairs are exact, and two
\* pairs compare as their numbers do.
I64(k, r) == [k |-> k, r |-> r]

i64_MIN == I64(-2, 0)

i64_MAX == I64(2, -1)

\* The number is one of an i64.
i64_fits(v) ==
    \/ v.k \in -1..1
    \/ v.k = 2 /\ v.r <= -1
    \/ v.k = -2 /\ v.r >= 0

i64_le(a, b) == a.k < b.k \/ (a.k = b.k /\ a.r <= b.r)

\* The i64 a sum or product of the source is left with when overflow is
\* not checked: the number modulo 2^64.
i64_wrapping(v) ==
    IF i64_fits(v) THEN v
    ELSE IF v.k > 0 THEN I64(v.k - 4, v.r)
    ELSE I64(v.k + 4, v.r)

\* std::cmp::min on i64
i64_min(a, b) == IF i64_le(a, b) THEN a ELSE b

\* Vector3D::add, before the sums are stored: self.x + other.x, ...
Vector3D_add(v, other) ==
    [x |-> I64(v.x.k + other.x.k, v.x.r + other.x.r),
     y |-> I64(v.y.k + other.y.k, v.y.r + other.y.r),
     z |-> I64(v.z.k + other.z.k, v.z.r + other.z.r)]

\* Vector3D::mul, before the products are stored: self.x * scalar, ...
Vector3D_mul(v, scalar) ==
    [x |-> I64(v.x.k * scalar, v.x.r * scalar),
     y |-> I64(v.y.k * scalar, v.y.r * scalar),
     z |-> I64(v.z.k * scalar, v.z.r * scalar)]

Vector3D_fits(v) == i64_fits(v.x) /\ i64_fits(v.y) /\ i64_fits(v.z)

Vector3D_wrapping(v) ==
    [x |-> i64_wrapping(v.x), y |-> i64_wrapping(v.y), z |-> i64_wrapping(v.z)]

\* Facet::lower_bound: the lowest corner of the facet's bounding box.
Facet_lower_bound(facet) ==
    [x |-> i64_min(facet[3].x, i64_min(facet[2].x, facet[1].x)),
     y |-> i64_min(facet[3].y, i64_min(facet[2].y, facet[1].y)),
     z |-> i64_min(facet[3].z, i64_min(facet[2].z, facet[1].z))]

\* Facet::translate, before the sums are stored.
Facet_translate(facet, translation) ==
    [k \in 1..3 |-> Vector3D_add(facet[k], translation)]

\* Mesh::translate, before the sums are stored.
Mesh_translate(fs, translation) ==
    [i \in 1..Len(fs) |-> Facet_translate(fs[i], translation)]

\* The loop of Mesh::zeroize over facets 2.. : the minima so far.
RECURSIVE zeroize_minimum(_, _, _)
zeroize_minimum(fs, i, translation) ==
    IF i > Len(fs) THEN translation
    ELSE LET min_point == Facet_lower_bound(fs[i])
         IN  zeroize_minimum(fs, i + 1,
                 [x |-> i64_min(translation.x, min_point.x),
                  y |-> i64_min(translation.y, min_point.y),
                  z |-> i64_min(translation.z, min_point.z)])

\* Mesh::zeroize.  With overflow checks (a debug build) a product or sum
\* outside i64 panics; without them (a release build) it wraps.
zeroize(fs, overflow_checks) ==
    LET minimum == zeroize_minimum(fs, 2, Facet_lower_bound(fs[1]))
        product == Vector3D_mul(minimum, -1)
        translation == Vector3D_wrapping(product)
        sums == Mesh_translate(fs, translation)
    IN  IF overflow_checks /\ ~Vector3D_fits(product)
        THEN Panic("attempt to multiply with overflow")
        ELSE IF overflow_checks
                  /\ \E i \in 1..Len(fs) : \E k \in 1..3 : ~Vector3D_fits(sums[i][k])
        THEN Panic("attempt to add with overflow")
        ELSE Ok([i \in 1..Len(fs) |->
                   [k \in 1..3 |-> Vector3D_wrapping(sums[i][k])]])

\* Mesh::new_zeroed: the facets of the mesh it returns.
Mesh_new_zeroed(fs, overflow_checks) == zeroize(fs, overflow_checks)

\* The vertices of the meshes: two near the origin, with negative
\* coordinates, one at i64::MAX in x and one at i64::MIN in y.
MeshPoints ==
    { [x |-> I64(0, 0), y |-> I64(0, 1), z |-> I64(0, -1)],
      [x |-> I64(0, -2), y |-> I64(0, 3), z |-> I64(0, 1)],
      [x |-> i64_MAX, y |-> I64(0, -1), z |-> I64(0, 2)],
      [x |-> I64(0, 1), y |-> i64_MIN, z |-> I64(0, 0)] }

\* Largest number of facets of a mesh.
MaxMeshFacets == 2

Meshes ==
    UNION { [1..n -> [1..3 -> MeshPoints]] : n \in 1..MaxMeshFacets }

InitMesh ==
    /\ call \in [op : {"new_zeroed"}, facets : Meshes, overflow_checks : BOOLEAN]
    /\ ret = None
    /\ scene = <<>>
    /\ FilterIdle
    /\ DriverIdle
    /\ StitchIdle

call_new_zeroed ==
    /\ call.op = "new_zeroed"
    /\ ret = None
    /\ ret' = Some(Mesh_new_zeroed(call.facets, call.overflow_checks))
    /\ UNCHANGED <<filterVars, driverVars, stitchVars, call>>

NextMesh == call_new_zeroed

SpecMesh == InitMesh /\ [][NextMesh]_vars

----------------------------------------------------------------------------
\* Properties

\* No run of slice() gets a segment out of a facet: the loop over the
\* intersecting facets is entered with facets to visit and no segment, and
\* the first facet visited fails an assertion.
NeverPastFirstFacet ==
    /\ pc = "for facet" => pending # <<>> /\ segments = <<>>
    /\ pc \in {"slice", "while", "for facet", "panicked", "returned"}
    /\ pc = "returned" => result = Some(Err("EmptyScene"))

\* C1: in every run of slice() on a scene with facets, every facet of the
\* intersecting view yields exactly two points: assert_eq!(idx, 2) never
\* fails.
C1_TwoIntersectionsPerFacet ==
    ~(pc = "panicked" /\ result = Some(Panic("didn't have two intersections")))

\* The facet list exists: it was constructed, and perhaps advanced.
Constructed == call.op \in {"new", "advance_height"}

\* The intersecting view of the facet list as it stands.
View == facet_intersections(facets, current_height)

\* C2: after construction and any advance_height calls, every facet of the
\* intersecting view has lower_z < current_height <= upper_z.
C2_ViewStraddlesStrictly ==
    Constructed =>
        \A i \in 1..Len(View) :
            /\ View[i].lower_bound < current_height
            /\ current_height <= View[i].upper_bound

\* C3: after construction and any advance_height calls, every facet still
\* held has upper_z >= current_height.
C3_RetainedReachHeight ==
    Constructed =>
        \A i \in 1..Len(facets) :
            \E k \in 1..3 : facets[i].facet[k].z >= current_height

\* C3's case: an advance_height call dropped some facets and kept others.
C3_Witness ==
    /\ call.op = "advance_height"
    /\ call.increment \in Increments \ {U64(0, 0)}
    /\ facets # <<>>
    /\ Len(facets) < Len(scene)

\* z >= height + delta for the u64 delta, the sum taken as a number: a
\* delta near 2^64 puts the sum above every z.
AtOrAboveSum(z, height, delta) == delta.k = 0 /\ z >= height + delta.r

\* The facets of fs whose upper bound is at or above height + delta, in
\* their order.
RECURSIVE RetainAtOrAbove(_, _, _)
RetainAtOrAbove(fs, height, delta) ==
    IF fs = <<>> THEN <<>>
    ELSE (IF AtOrAboveSum(upper_z_bound(Head(fs).facet), height, delta)
          THEN <<Head(fs)>> ELSE <<>>)
         \o RetainAtOrAbove(Tail(fs), height, delta)

\* C4: advance_height(delta) leaves the previous list filtered by
\* upper_z >= old current_height + delta, in the same relative order.
C4_AdvanceIsRetain ==
    [][call'.op = "advance_height" =>
         facets' = RetainAtOrAbove(facets, current_height, call'.increment)]_vars

\* advance_height(delta) for delta below 2^63 leaves the previous list
\* filtered by upper_z >= new current_height, the height raised by delta.
AdvanceBelowWrapIsRetain ==
    [][call'.op = "advance_height" /\ call'.increment.k = 0 =>
         /\ current_height' = current_height + call'.increment.r
         /\ facets' = RetainAtOrAbove(facets, current_height, call'.increment)]_vars

\* C5: the facet list is sorted by lower_z in descending order after
\* construction and after any advance_height calls.
C5_SortedByLowerDescending ==
    Constructed =>
        \A i, j \in 1..Len(facets) :
            i < j => lower_z_bound(facets[i].facet) >= lower_z_bound(facets[j].facet)

\* C5's case: after a call that dropped facets, facets of different lower
\* bounds are left.
C5_Witness ==
    /\ call.op = "advance_height"
    /\ Len(facets) >= 2
    /\ Len(facets) < Len(scene)
    /\ facets[1].lower_bound > facets[Len(facets)].lower_bound

\* How many times facet f occurs in the sequence of cached facets fs.
Occurrences(fs, f) == Cardinality({ i \in 1..Len(fs) : fs[i].facet = f })

\* C6: the intersecting view misses no facet: every facet of the input with
\* lower_z < current_height <= upper_z is in it (as often as in the input),
\* and when no facet lies above the plane the view is the whole list.
C6_ViewMissesNone ==
    Constructed =>
        /\ \A i \in 1..Len(scene) :
              (lower_z_bound(scene[i]) < current_height
                  /\ current_height <= upper_z_bound(scene[i]))
              => Occurrences(View, scene[i])
                     = Cardinality({ j \in 1..Len(scene) : scene[j] = scene[i] })
        /\ (\A i \in 1..Len(facets) : facets[i].lower_bound <= current_height)
              => View = facets

\* C7: constructing the facet list from N >= 1 facets sets current_height to
\* the minimum lower_z over all of them and keeps all N.
C7_ConstructionKeepsAll ==
    call.op = "new" =>
        /\ \A i \in 1..Len(scene) : \A k \in 1..3 : scene[i][k].z >= current_height
        /\ \E i \in 1..Len(scene) : \E k \in 1..3 : scene[i][k].z = current_height
        /\ Len(facets) = Len(scene)
        /\ \A i \in 1..Len(scene) :
              Occurrences(facets, scene[i])
                  = Cardinality({ j \in 1..Len(scene) : scene[j] = scene[i] })

\* C7's case: a list constructed from several facets, one of them wholly
\* above the start height and one flat at it.
C7_Witness ==
    /\ call.op = "new"
    /\ Len(scene) >= 2
    /\ \E i \in 1..Len(scene) : lower_z_bound(scene[i]) > current_height
    /\ \E i \in 1..Len(scene) : upper_z_bound(scene[i]) = current_height

\* C8: zinterpolate(a, b, Z) and zinterpolate(b, a, Z) return the same
\* result.
C8_OrderIndependent ==
    ret # None => ret[1].ab = ret[1].ba

\* The points of the ends of the segments of pool.
EndPoints(pool) == { pool[i][k] : i \in 1..Len(pool), k \in 1..2 }

\* The number of ends of segments of pool at point p.
Degree(pool, p) ==
    Cardinality({ ik \in (1..Len(pool)) \X (1..2) : pool[ik[1]][ik[2]] = p })

\* The points joined to a point of ps by segments of pool.
RECURSIVE Connected(_, _)
Connected(pool, ps) ==
    LET more == ps \cup { pool[i][k] : i \in { j \in 1..Len(pool) :
                                                pool[j][1] \in ps \/ pool[j][2] \in ps },
                                       k \in 1..2 }
    IN  IF more = ps THEN ps ELSE Connected(pool, more)

\* The segments of pool form closed loops with no point in common: every
\* point ends exactly two segments.
ClosedLoops(pool) ==
    /\ pool # <<>>
    /\ \A p \in EndPoints(pool) : Degree(pool, p) = 2

\* The number of loops.
LoopCount(pool) == Cardinality({ Connected(pool, {p}) : p \in EndPoints(pool) })

\* C9: when the segments of a layer form k >= 2 disjoint closed loops, the
\* driver gets k islands for that slice and reports no error.
C9_LoopsBecomeIslands ==
    (/\ pc \in {"while", "returned"}
     /\ ClosedLoops(call.segments)
     /\ LoopCount(call.segments) >= 2)
    => /\ result = None \/ result[1].ok
       /\ Len(slices) = Len(call.slices) + 1
       /\ Len(slices[Len(slices)].islands) = LoopCount(call.segments)

\* C10: the stitcher returns a polygon only when the unmatched open end is
\* the polygon's start vertex; an unmatched open end that differs from the
\* start vertex is reported as OpenStitchPolygon.
C10_PolygonOnlyWhenClosed ==
    (pc = "stitched" /\ stitched # Some(Ok(None)))
    => /\ (stitched[1].ok => open_end = builder.start)
       /\ (open_end # builder.start => stitched = Some(Err("OpenStitchPolygon")))

\* The segment list stitch_segments was called with.
Pool == call.segments

\* C11: stitching a non-empty list of fewer than 3 segments reports
\* OpenStitchPolygon, so every polygon the stitcher returns has at least 4
\* vertices.
C11_FewSegmentsAreOpen ==
    pc = "stitched" =>
        /\ Len(Pool) \in 1..2 =>
              ~stitched[1].ok /\ stitched[1].value = "OpenStitchPolygon"
        /\ (stitched[1].ok /\ stitched[1].value # None) =>
              Len(stitched[1].value[1]) >= 4

\* C12: a pass of the stitcher's loop removes a segment from the list only
\* if one of the segment's endpoints equals the open end, x for x and y for
\* y.
C12_JoinsOnlyEqualEnds ==
    [][(pc = "stitch loop" /\ Len(segments') < Len(segments)) =>
          \E i \in 1..Len(segments) :
              /\ segments' = remove(segments, i)
              /\ segments[i][1] = open_end \/ segments[i][2] = open_end]_vars

\* C13: every polygon the stitcher returns is closed: its first vertex is
\* the first endpoint of the segment popped to start it, and its last
\* vertex equals its first.
C13_PolygonIsClosed ==
    (pc = "stitched" /\ stitched[1].ok /\ stitched[1].value # None) =>
        LET polygon == stitched[1].value[1]
        IN  /\ polygon[1] = Pool[Len(Pool)][1]
            /\ polygon[Len(polygon)] = polygon[1]

\* C13's case: a polygon returned for a list of three or more segments,
\* with vertices other than its start.
C13_Witness ==
    /\ pc = "stitched"
    /\ Len(Pool) >= 3
    /\ stitched[1].ok
    /\ stitched[1].value # None
    /\ Len(stitched[1].value[1]) >= 4
    /\ \E i \in 1..Len(stitched[1].value[1]) :
          stitched[1].value[1][i] # stitched[1].value[1][1]

\* C14: slice() on a scene with no triangles returns the EmptyScene error,
\* builds no facet filter and produces no slice.
C14_EmptySceneIsError ==
    (Scene_is_empty(scene) /\ pc # "slice") =>
        /\ pc = "returned"
        /\ ~result[1].ok
        /\ result[1].value = "EmptyScene"
        /\ facets = <<>>
        /\ current_height = 0
        /\ slices = <<>>
        /\ plane = 0
        /\ segments = <<>>

\* C14's case: slice() has returned for the empty scene.
C14_Witness ==
    /\ Scene_is_empty(scene)
    /\ pc = "returned"
    /\ result # None

\* C17: when the stitcher reports OpenStitchPolygon for a plane, the next
\* step of slice() returns that error and nothing else: the slice list and
\* the facet filter are left as they were, no slice is pushed, the height
\* is not advanced, and after the return slice() takes no further step.
C17_StitchErrorEndsSlice ==
    [][/\ (pc = "stitched" /\ ~stitched[1].ok) =>
             /\ pc' = "returned"
             /\ result' # None
             /\ ~result'[1].ok
             /\ result'[1].value = "OpenStitchPolygon"
             /\ DOMAIN result'[1] = {"ok", "value"}
             /\ UNCHANGED <<facets, current_height, plane, slices>>
       /\ pc \in {"returned", "panicked"} => FALSE]_vars

\* C17's case: slice() has returned OpenStitchPolygon while it held a slice
\* built for a lower plane.
C17_Witness ==
    /\ pc = "returned"
    /\ ~result[1].ok
    /\ result[1].value = "OpenStitchPolygon"
    /\ slices # <<>>
    /\ Len(Pool) >= 2

\* The stepwise stitcher and stitch_segments as a function agree.
StitchStepsAreFunction ==
    pc = "stitched" =>
        /\ stitched[1].ok = stitch_segments(Pool).ok
        /\ stitched[1].value = stitch_segments(Pool).value

\* C18: moving every facet by (tx, ty, 0) leaves the outcome of a plane the
\* same: the same failed assertion, the same error, no polygon in both, or
\* a polygon of as many vertices, each the vertex of the unmoved run plus
\* (tx, ty).
C18_TranslationInvariant ==
    ret # None =>
        LET p == ret[1].plain
            m == ret[1].moved
            t == call.translation
        IN  /\ p.ok = m.ok
            /\ DOMAIN p = DOMAIN m
            /\ ~p.ok => /\ p.value = m.value
                        /\ "message" \in DOMAIN p => p.message = m.message
            /\ p.ok => /\ (p.value = None) = (m.value = None)
                       /\ p.value # None =>
                            /\ Len(m.value[1]) = Len(p.value[1])
                            /\ \A i \in 1..Len(p.value[1]) :
                                  m.value[1][i] =
                                      Vector2D_new(p.value[1][i].x + t.x,
                                                   p.value[1][i].y + t.y)

\* C18's case: two facets cut by the plane between their vertices give a
\* polygon with interpolated vertices, and the moved run has negative
\* coordinates.
C18_Witness ==
    /\ ret # None
    /\ Len(call.facets) = 2
    /\ ret[1].plain.ok
    /\ ret[1].plain.value # None
    /\ Len(ret[1].plain.value[1]) >= 3
    /\ \E i \in 1..Len(ret[1].plain.value[1]) :
          ret[1].plain.value[1][i].x \notin {0, 5, 10, 15}
    /\ \E i \in 1..Len(ret[1].moved.value[1]) :
          ret[1].moved.value[1][i].x < 0

\* The orders box_to_facet_filter chooses from are orders of the sort.
RotationsAreSorted ==
    pc = "slice" /\ scene # <<>> =>
        LET cached == [i \in 1..Len(scene) |-> CachedFacetBounds_new(scene[i])]
        IN  sort_unstable_by_rotations(cached) \subseteq sort_unstable_by(cached)

\* C19: slice() on a closed box of height H with a layer height that
\* divides H ends with Ok and H / layer_height slices, each with exactly one
\* island whose outline is the rectangle of the box's base.
C19_BoxSlices ==
    pc \in {"returned", "panicked"} =>
        /\ result[1].ok
        /\ Len(result[1].value) = call.box.h \div call.box.layer_height
        /\ \A k \in 1..Len(result[1].value) :
              LET islands == result[1].value[k].islands
              IN  /\ Len(islands) = 1
                  /\ { islands[1].outline[i] : i \in 1..Len(islands[1].outline) }
                        = { Vector2D_new(x, y) : x \in {0, call.box.w},
                                                 y \in {0, call.box.d} }
                  /\ islands[1].outline[1]
                        = islands[1].outline[Len(islands[1].outline)]

\* The vertices of a mesh, as pairs of facet and corner.
Corners(fs) == (1..Len(fs)) \X (1..3)

\* The mesh out is the mesh in moved so that the least x, y and z are 0,
\* with the differences between vertices kept.
Zeroed(in, out) ==
    /\ Len(out) = Len(in)
    /\ \A c \in Corners(out) :
          /\ i64_le(I64(0, 0), out[c[1]][c[2]].x)
          /\ i64_le(I64(0, 0), out[c[1]][c[2]].y)
          /\ i64_le(I64(0, 0), out[c[1]][c[2]].z)
    /\ \E c \in Corners(out) : out[c[1]][c[2]].x = I64(0, 0)
    /\ \E c \in Corners(out) : out[c[1]][c[2]].y = I64(0, 0)
    /\ \E c \in Corners(out) : out[c[1]][c[2]].z = I64(0, 0)
    /\ \A c, e \in Corners(in) :
          LET difference(a, b) == I64(a.k - b.k, a.r - b.r)
              p == in[c[1]][c[2]]
              q == in[e[1]][e[2]]
              pz == out[c[1]][c[2]]
              qz == out[e[1]][e[2]]
          IN  /\ difference(pz.x, qz.x) = difference(p.x, q.x)
              /\ difference(pz.y, qz.y) = difference(p.y, q.y)
              /\ difference(pz.z, qz.z) = difference(p.z, q.z)

\* The vertices of the mesh lie so that no negation or sum of zeroize
\* leaves i64: on each axis the least coordinate is not i64::MIN and the
\* greatest minus the least is at most i64::MAX.
ExtentFits(fs) ==
    LET minimum == zeroize_minimum(fs, 2, Facet_lower_bound(fs[1]))
    IN  /\ Vector3D_fits(Vector3D_mul(minimum, -1))
        /\ \A c \in Corners(fs) :
              Vector3D_fits(Vector3D_add(fs[c[1]][c[2]], Vector3D_mul(minimum, -1)))

\* Mesh::new_zeroed does zero every mesh whose extent fits.
ZeroedWhenExtentFits ==
    (ret # None /\ ExtentFits(call.facets)) =>
        ret[1].ok /\ Zeroed(call.facets, ret[1].value)

\* C20: Mesh::new_zeroed on a non-empty facet list returns the mesh moved
\* so that the least x, the least y and the least z over all vertices are
\* each 0, every coordinate is >= 0, and all differences between vertices
\* are unchanged.
C20_NewZeroed ==
    ret # None => ret[1].ok /\ Zeroed(call.facets, ret[1].value)

\* C21: after construction and any advance_height calls, done() is true
\* if and only if no facet of the input has a vertex at or above
\* current_height.
C21_DoneIffNoneReaches ==
    Constructed =>
        (done(facets) <=>
            \A i \in 1..Len(scene) : upper_z_bound(scene[i]) < current_height)

\* The vertex of the facet lying on the plane while the other two lie
\* strictly on opposite sides of it, as a set of at most one index.
MiddleOnPlane(facet, plane_z) ==
    { m \in 1..3 :
        /\ facet[m].z = plane_z
        /\ \E lo \in 1..3 : \E hi \in 1..3 :
              /\ {m, lo, hi} = 1..3
              /\ facet[lo].z < plane_z
              /\ facet[hi].z > plane_z }

\* The crossing of the plane with the edge joining the two vertices other
\* than m, taken in the order of vertex_combos.
OppositeCrossing(facet, m, plane_z) ==
    LET i == CHOOSE i \in (1..3) \ {m} : \A j \in (1..3) \ {m} : i <= j
        j == CHOOSE j \in (1..3) \ {m} : j # i
    IN  zinterpolate(facet[i], facet[j], plane_z)

\* C22: for a triangle whose middle vertex is on the plane and whose other
\* vertices are strictly on opposite sides, the per-facet body records
\* exactly two points without failing an assertion: the on-plane vertex,
\* once, and the crossing of the opposite edge.
C22_MiddleVertexOnce ==
    ret # None /\ call.op = "facet_segment" =>
        \A m \in MiddleOnPlane(call.facet, call.plane_z) :
            LET st == ret[1]
                crossing == OppositeCrossing(call.facet, m, call.plane_z)
            IN  /\ st.panic = None
                /\ st.idx = 2
                /\ crossing # None
                /\ \E k \in 1..2 :
                      /\ st.intersections[k] = to_2d_at_z(call.facet[m])
                      /\ st.intersections[3 - k] = crossing[1]

\* C22's case: the routine has run on a facet with its middle vertex on
\* the plane, and the crossing of the opposite edge is a different point.
C22_Witness ==
    /\ ret # None
    /\ call.op = "facet_segment"
    /\ \E m \in MiddleOnPlane(call.facet, call.plane_z) :
          /\ m = 3
          /\ OppositeCrossing(call.facet, m, call.plane_z)
                 # Some(to_2d_at_z(call.facet[m]))

\* C23: for every triangle and every plane height, the per-facet body
\* never reaches a third write: assert!(idx < 2) does not fail.
C23_NeverThirdIntersection ==
    ret # None /\ call.op = "facet_segment" =>
        ret[1].panic # Some("intersected more than twice")

\* C23's case: all three vertex pairs of the facet intersect the plane,
\* and the routine has finished with two points recorded.
C23_Witness ==
    /\ ret # None
    /\ call.op = "facet_segment"
    /\ \A k \in 1..3 :
          LET combo == vertex_combos(call.facet)[k]
          IN  zinterpolate(combo[1], combo[2], call.plane_z) # None
    /\ ret[1].idx = 2
    /\ ret[1].panic = None

\* The facet has all three vertices at height plane_z.
Flat(facet, plane_z) == \A k \in 1..3 : facet[k].z = plane_z

\* C24: in every run of slice(), no facet of the intersecting view of a
\* visited plane lies flat on that plane, so none reaches
\* assert_eq!(idx, 2).
C24_FlatNeverInView ==
    pc = "for facet" =>
        \A i \in 1..Len(pending) : ~Flat(pending[i].facet, plane)

\* C25: zinterpolate(a, b, Z) returns a point if and only if a.z # b.z and
\* Z lies between a.z and b.z inclusive (so none for an edge parallel to
\* the plane, even in the plane, and none for an edge strictly on one
\* side); when one endpoint has z = Z the point is that endpoint's (x, y).
C25_PointIffEdgeMeetsPlane ==
    ret # None /\ call.op = "zinterpolate" =>
        LET a == call.a
            b == call.b
            Z == call.plane_z
            r == ret[1].ab
        IN  /\ (r # None) <=>
                (a.z # b.z /\ min(a.z, b.z) <= Z /\ Z <= max(a.z, b.z))
            /\ (a.z # b.z /\ a.z = Z) => r = Some(to_2d_at_z(a))
            /\ (a.z # b.z /\ b.z = Z) => r = Some(to_2d_at_z(b))

\* C25's case: zinterpolate has returned none for an edge lying in the
\* plane.
C25_Witness ==
    /\ ret # None
    /\ call.op = "zinterpolate"
    /\ call.a.z = call.plane_z
    /\ call.b.z = call.plane_z
    /\ call.a # call.b
    /\ ret[1].ab = None

\* trunc(n / d), the quotient truncated towards zero.
trunc(n, d) ==
    IF (n >= 0) = (d > 0) THEN abs(n) \div abs(d) ELSE -(abs(n) \div abs(d))

\* C26: when a and b lie strictly on opposite sides of Z, zinterpolate
\* returns x = trunc(a.x + (b.x - a.x) * t) and
\* y = trunc(a.y + (b.y - a.y) * t) with t = (Z - a.z) / (b.z - a.z).
C26_TruncatedCrossing ==
    ret # None /\ call.op = "zinterpolate" =>
        LET a == call.a
            b == call.b
            Z == call.plane_z
            dz == b.z - a.z
        IN  (a.z < Z /\ Z < b.z) \/ (b.z < Z /\ Z < a.z) =>
                ret[1].ab = Some(Vector2D_new(
                    trunc(a.x * dz + (b.x - a.x) * (Z - a.z), dz),
                    trunc(a.y * dz + (b.y - a.y) * (Z - a.z), dz)))

\* advance_height(0) changes neither the height nor the list: a loop that
\* advances by a layer_height of 0 visits the same plane again.
ZeroIncrementIsNoOp ==
    [][call'.op = "advance_height" /\ call'.increment = U64(0, 0) /\ Constructed =>
          facets' = facets /\ current_height' = current_height]_vars

\* C27: every run of slice() on a scene with facets, whatever the
\* layer_height, comes to an empty facet list and returns.
C27_SliceReturns ==
    (pc = "slice" /\ scene # <<>>) ~> (pc = "returned" /\ done(facets))

====
